---------------------------- MODULE Spec2Model ----------------------------
(***************************************************************************)
(* A model of src/app/realtime/__init__.py: the realtime transport         *)
(* (RealtimeAPI), the conversation store (RealtimeConversation) and the    *)
(* client (RealtimeClient).                                                *)
(*                                                                         *)
(* Python values are modelled as follows.                                  *)
(*   - A str is the sequence of its character codes; bytes and bytearray   *)
(*     are sequences of byte values.                                       *)
(*   - A dict whose order is observable is a sequence of [k, v] pairs in   *)
(*     insertion order; the queued_* tables are functions on their keys.   *)
(*   - Item and response dicts are objects on a heap (ref -> dict), since  *)
(*     the store keeps the same object in a lookup table and in a list;    *)
(*     ref 0 is None.                                                      *)
(***************************************************************************)
EXTENDS Integers, Sequences, FiniteSets, TLC

VARIABLES
    conversation,   \* RealtimeConversation: its fields and the objects they hold
    universe,       \* the server events (and call arguments) this run draws from
    application,    \* the calls the application makes in this run
    called,         \* the last call of the application and whether it raised
    last,           \* the last process_event call: event, outcome, returned pair
    pending,        \* positions of one response's events that are still to be fed
    order_kept,     \* whether every event fed so far came after the events it rests on
    ws,             \* RealtimeAPI.ws: the stream it holds, 0 for None
    streams,        \* every stream opened so far, "open" or "closed"
    wire,           \* the events written to the streams, in order
    received,       \* the number of frames the inbound pumps have taken
    pumps,          \* the _receive_messages tasks
    tasks,          \* the _on_output_item_done tasks
    connecting,     \* connect() calls suspended in websockets.connect
    calls,          \* the number of calls the application has made
    tools,          \* RealtimeClient.tools
    session_config, \* RealtimeClient.session_config
    input_audio_buffer, \* RealtimeClient.input_audio_buffer
    session_created, \* RealtimeClient.session_created
    event_handlers, \* RealtimeAPI.event_handlers: the sets of client subscriptions in it
    dispatched      \* what the last step dispatched on the client's own event bus

transport_vars == <<ws, streams, wire, received, event_handlers>>

loop_vars == <<pumps, tasks, connecting, calls>>

client_vars == <<tools, session_config, input_audio_buffer, session_created>>

vars ==
    <<conversation, universe, application, called, last, pending, order_kept,
      transport_vars, loop_vars, client_vars, dispatched>>

---------------------------------------------------------------------------
(* Bounds of the model. *)

MaxItems == 3
MaxChunks == 2
MaxText == 2
MaxParts == 2
MaxOutput == 2

---------------------------------------------------------------------------
(* Python helpers. *)

Min(a, b) == IF a <= b THEN a ELSE b

\* seq[:n] for n >= 0
Take(s, n) == SubSeq(s, 1, Min(n, Len(s)))

\* seq[a:b] for a, b >= 0
Slice(s, a, b) == SubSeq(s, Min(a, Len(s)) + 1, Min(b, Len(s)))

DictHas(d, k) == \E i \in 1..Len(d) : d[i].k = k

DictGet(d, k) == IF DictHas(d, k) THEN d[CHOOSE i \in 1..Len(d) : d[i].k = k].v ELSE 0

DictSet(d, k, v) ==
    IF DictHas(d, k)
    THEN [i \in 1..Len(d) |-> IF d[i].k = k THEN [k |-> k, v |-> v] ELSE d[i]]
    ELSE Append(d, [k |-> k, v |-> v])

DictDel(d, k) == SelectSeq(d, LAMBDA p : p.k # k)

DictKeys(d) == [i \in 1..Len(d) |-> d[i].k]

DictValues(d) == {d[i].v : i \in 1..Len(d)}

\* a function without key k (del table[k])
Without(f, k) == [x \in (DOMAIN f) \ {k} |-> f[x]]

\* a function with key k set (table[k] = v)
With(f, k, v) == [x \in (DOMAIN f) \cup {k} |-> IF x = k THEN v ELSE f[x]]

\* list.remove(x) on a list of refs: drops the first element whose object
\* equals (==, by value) the object of ref
RemoveFirst(s, heap, ref) ==
    IF \E i \in 1..Len(s) : heap[s[i]] = heap[ref]
    THEN LET i == CHOOSE j \in 1..Len(s) :
                      /\ heap[s[j]] = heap[ref]
                      /\ \A q \in 1..(j - 1) : heap[s[q]] # heap[ref]
         IN SubSeq(s, 1, i - 1) \o SubSeq(s, i + 1, Len(s))
    ELSE s

\* the ref of a newly created object: the smallest ref not in use
Alloc(heap) ==
    CHOOSE r \in 1..(Cardinality(DOMAIN heap) + 1) :
        r \notin DOMAIN heap /\ \A q \in 1..(r - 1) : q \in DOMAIN heap

---------------------------------------------------------------------------
(* base64_to_array_buffer: standard base64 over character codes. *)

\* the 6-bit value of a base64 character ("=" pads as 0)
B64Value(ch) ==
    IF ch >= 65 /\ ch <= 90 THEN ch - 65
    ELSE IF ch >= 97 /\ ch <= 122 THEN ch - 71
    ELSE IF ch >= 48 /\ ch <= 57 THEN ch + 4
    ELSE IF ch = 43 THEN 62
    ELSE IF ch = 47 THEN 63
    ELSE 0

\* one group of four characters gives three bytes, less one per "="
B64Group(g) ==
    LET n == B64Value(g[1]) * 262144 + B64Value(g[2]) * 4096
             + B64Value(g[3]) * 64 + B64Value(g[4])
        pads == Cardinality({i \in 3..4 : g[i] = 61})
    IN Take(<<n \div 65536, (n \div 256) % 256, n % 256>>, 3 - pads)

RECURSIVE base64_to_array_buffer(_)
base64_to_array_buffer(base64_string) ==
    IF Len(base64_string) < 4 THEN <<>>
    ELSE B64Group(SubSeq(base64_string, 1, 4))
         \o base64_to_array_buffer(SubSeq(base64_string, 5, Len(base64_string)))

---------------------------------------------------------------------------
(* Items, content parts and events as the server sends them. *)

\* config.features.audio.sample_rate, scaled down so that a few
\* milliseconds are a few samples
default_frequency == 1500

NoTool == [type |-> "", name |-> "", call_id |-> "", arguments |-> <<>>]

\* formatted.audio: a list of chunks (kind "list") or one bytearray (kind
\* "bytes", held as the single element of data)
AudioList(chunks) == [kind |-> "list", data |-> chunks]

AudioBytes(bytes) == [kind |-> "bytes", data |-> <<bytes>>]

\* the audio as one concatenated byte stream
RECURSIVE Concat(_)
Concat(chunks) == IF chunks = <<>> THEN <<>> ELSE Head(chunks) \o Concat(Tail(chunks))

\* len(audio) and audio[:n] of either kind
AudioLen(audio) == IF audio.kind = "list" THEN Len(audio.data) ELSE Len(audio.data[1])

AudioTake(audio, n) ==
    IF audio.kind = "list" THEN AudioList(Take(audio.data, n))
    ELSE AudioBytes(Take(audio.data[1], n))

BlankFormatted ==
    [audio |-> AudioList(<<>>), text |-> <<>>, transcript |-> <<>>,
     tool |-> NoTool, has_output |-> FALSE, output |-> <<>>]

TextPart(type, text) ==
    [type |-> type, has_text |-> TRUE, text |-> text,
     has_transcript |-> FALSE, transcript |-> <<>>]

AudioPart(type) ==
    [type |-> type, has_text |-> FALSE, text |-> <<>>,
     has_transcript |-> TRUE, transcript |-> <<>>]

MessageItem(id, role, content) ==
    [id |-> id, type |-> "message", role |-> role, status |-> "in_progress",
     has_content |-> TRUE, content |-> content,
     name |-> "", call_id |-> "", arguments |-> <<>>, output |-> <<>>]

FunctionCallItem(id, name, call_id) ==
    [id |-> id, type |-> "function_call", role |-> "", status |-> "in_progress",
     has_content |-> FALSE, content |-> <<>>,
     name |-> name, call_id |-> call_id, arguments |-> <<>>, output |-> <<>>]

FunctionCallOutputItem(id, call_id, output) ==
    [id |-> id, type |-> "function_call_output", role |-> "", status |-> "completed",
     has_content |-> FALSE, content |-> <<>>,
     name |-> "", call_id |-> call_id, arguments |-> <<>>, output |-> output]

EvItemCreated(item) == [type |-> "conversation.item.created", item |-> item]

EvItemTruncated(id, ms) ==
    [type |-> "conversation.item.truncated", item_id |-> id, audio_end_ms |-> ms]

EvItemDeleted(id) == [type |-> "conversation.item.deleted", item_id |-> id]

EvTranscriptionCompleted(id, ci, transcript) ==
    [type |-> "conversation.item.input_audio_transcription.completed",
     item_id |-> id, content_index |-> ci, transcript |-> transcript]

EvSpeechStarted(id, ms) ==
    [type |-> "input_audio_buffer.speech_started", item_id |-> id, audio_start_ms |-> ms]

\* input_audio_buffer is the extra argument of the call, not part of the frame
EvSpeechStopped(id, ms, buffer) ==
    [type |-> "input_audio_buffer.speech_stopped", item_id |-> id,
     audio_end_ms |-> ms, input_audio_buffer |-> buffer]

EvResponseCreated(rid) == [type |-> "response.created", response_id |-> rid]

EvOutputItemAdded(rid, id) ==
    [type |-> "response.output_item.added", response_id |-> rid, item_id |-> id]

EvOutputItemDone(id, status) ==
    [type |-> "response.output_item.done", item_id |-> id, status |-> status]

EvContentPartAdded(id, part) ==
    [type |-> "response.content_part.added", item_id |-> id, part |-> part]

EvAudioTranscriptDelta(id, ci, delta) ==
    [type |-> "response.audio_transcript.delta", item_id |-> id,
     content_index |-> ci, delta |-> delta]

EvAudioDelta(id, ci, delta) ==
    [type |-> "response.audio.delta", item_id |-> id, content_index |-> ci, delta |-> delta]

EvTextDelta(id, ci, delta) ==
    [type |-> "response.text.delta", item_id |-> id, content_index |-> ci, delta |-> delta]

EvFunctionCallArgumentsDelta(id, delta) ==
    [type |-> "response.function_call_arguments.delta", item_id |-> id, delta |-> delta]

\* a frame of a type the store has no processor for
EvOther(type) == [type |-> type]

---------------------------------------------------------------------------
(* RealtimeConversation. *)

clear ==
    [item_lookup |-> <<>>, items |-> <<>>,
     response_lookup |-> <<>>, responses |-> <<>>,
     queued_speech_items |-> <<>>, queued_transcript_items |-> <<>>,
     queued_input_audio |-> [is_none |-> TRUE, data |-> <<>>],
     heap |-> <<>>]

\* what a processor hands back: the store after it, the returned (item,
\* delta) pair, and whether it raised instead of returning
NoDelta == [key |-> "None", value |-> <<>>]

Return(c, item, delta) == [c |-> c, item |-> item, delta |-> delta, raised |-> FALSE]

Raise(c) == [c |-> c, item |-> 0, delta |-> NoDelta, raised |-> TRUE]

SetObj(c, ref, obj) == [c EXCEPT !.heap = With(@, ref, obj)]

get_item(c, id) == DictGet(c.item_lookup, id)

\* item.copy() with the formatted projection of line 259
copy(item) ==
    [id |-> item.id, type |-> item.type, role |-> item.role, status |-> item.status,
     has_content |-> item.has_content, content |-> item.content,
     name |-> item.name, call_id |-> item.call_id, arguments |-> item.arguments,
     output |-> item.output, formatted |-> BlankFormatted]

\* the text of the text / input_text entries of a content list, in order
RECURSIVE text_content(_)
text_content(content) ==
    IF content = <<>> THEN <<>>
    ELSE (IF Head(content).type \in {"text", "input_text"} THEN Head(content).text ELSE <<>>)
         \o text_content(Tail(content))

\* the branch on the item's type with a user message that takes the queued
\* input audio and leaves it queued
by_type_keeps_queue(c, o) ==
    IF o.type = "message"
    THEN IF o.role = "user"
         THEN IF ~c.queued_input_audio.is_none /\ c.queued_input_audio.data # <<>>
              THEN [c |-> c,
                    o |-> [o EXCEPT !.status = "completed",
                                    !.formatted.audio = AudioBytes(c.queued_input_audio.data)]]
              ELSE [c |-> c, o |-> [o EXCEPT !.status = "completed"]]
         ELSE [c |-> c, o |-> [o EXCEPT !.status = "in_progress"]]
    ELSE IF o.type = "function_call"
    THEN [c |-> c,
          o |-> [o EXCEPT !.status = "in_progress",
                          !.formatted.tool = [type |-> "function", name |-> o.name,
                                              call_id |-> o.call_id, arguments |-> <<>>]]]
    ELSE IF o.type = "function_call_output"
    THEN [c |-> c,
          o |-> [o EXCEPT !.status = "completed", !.formatted.has_output = TRUE,
                          !.formatted.output = o.output]]
    ELSE [c |-> c, o |-> o]

\* RealtimeConversation.queue_input_audio
queue_input_audio(c, input_audio) ==
    [c EXCEPT !.queued_input_audio = [is_none |-> FALSE, data |-> input_audio]]

\* lines 276-294: the branch on the item's type
by_type(c, o) ==
    IF o.type = "message"
    THEN IF o.role = "user"
         THEN IF ~c.queued_input_audio.is_none /\ c.queued_input_audio.data # <<>>
              THEN [c |-> [c EXCEPT !.queued_input_audio = [is_none |-> TRUE, data |-> <<>>]],
                    o |-> [o EXCEPT !.status = "completed",
                                    !.formatted.audio = AudioBytes(c.queued_input_audio.data)]]
              ELSE [c |-> c, o |-> [o EXCEPT !.status = "completed"]]
         ELSE [c |-> c, o |-> [o EXCEPT !.status = "in_progress"]]
    ELSE IF o.type = "function_call"
    THEN [c |-> c,
          o |-> [o EXCEPT !.status = "in_progress",
                          !.formatted.tool = [type |-> "function", name |-> o.name,
                                              call_id |-> o.call_id, arguments |-> <<>>]]]
    ELSE IF o.type = "function_call_output"
    THEN [c |-> c,
          o |-> [o EXCEPT !.status = "completed", !.formatted.has_output = TRUE,
                          !.formatted.output = o.output]]
    ELSE [c |-> c, o |-> o]

_process_item_created(c, event) ==
    LET id == event.item.id
        ref == Alloc(c.heap)
        o1 == copy(event.item)
        c1 == IF ~DictHas(c.item_lookup, id)
              THEN [c EXCEPT !.item_lookup = DictSet(@, id, ref), !.items = Append(@, ref)]
              ELSE c
        queued == id \in DOMAIN c.queued_speech_items
        o2 == IF queued
              THEN [o1 EXCEPT !.formatted.audio = AudioBytes(c.queued_speech_items[id].audio)]
              ELSE o1
        c2 == IF queued THEN [c1 EXCEPT !.queued_speech_items = Without(@, id)] ELSE c1
        o3 == IF o2.has_content
              THEN [o2 EXCEPT !.formatted.text = @ \o text_content(o2.content)]
              ELSE o2
        transcribed == id \in DOMAIN c.queued_transcript_items
        o4 == IF transcribed
              THEN [o3 EXCEPT !.formatted.transcript = c.queued_transcript_items[id].transcript]
              ELSE o3
        c4 == IF transcribed THEN [c2 EXCEPT !.queued_transcript_items = Without(@, id)] ELSE c2
        r5 == by_type(c4, o4)
    IN IF queued /\ ~c.queued_speech_items[id].has_audio
       THEN Raise(SetObj(c1, ref, o1))     \* KeyError "audio" at line 261
       ELSE Return(SetObj(r5.c, ref, r5.o), ref, NoDelta)

_process_item_truncated(c, event) ==
    LET ref == get_item(c, event.item_id)
        end_index == (event.audio_end_ms * default_frequency) \div 1000
    IN IF ref = 0 THEN Raise(c)
       ELSE Return([c EXCEPT !.heap[ref].formatted.transcript = <<>>,
                             !.heap[ref].formatted.audio = AudioTake(@, end_index)],
                   ref, NoDelta)

\* a deletion that also takes the id out of every response's output
_process_item_deleted_from_outputs(c, event) ==
    LET ref == get_item(c, event.item_id)
        responses == DictValues(c.response_lookup)
    IN IF ref = 0 THEN Raise(c)
       ELSE Return([c EXCEPT !.item_lookup = DictDel(@, c.heap[ref].id),
                             !.items = RemoveFirst(@, c.heap, ref),
                             !.heap = [x \in DOMAIN c.heap |->
                                          IF x \in responses
                                          THEN [c.heap[x] EXCEPT !.output =
                                                   SelectSeq(@, LAMBDA i : i # event.item_id)]
                                          ELSE c.heap[x]]],
                   ref, NoDelta)

\* a deletion that forgets the list
_process_item_deleted_keeps_list(c, event) ==
    LET ref == get_item(c, event.item_id)
    IN IF ref = 0 THEN Raise(c)
       ELSE Return([c EXCEPT !.item_lookup = DictDel(@, c.heap[ref].id)], ref, NoDelta)

_process_item_deleted(c, event) ==
    LET ref == get_item(c, event.item_id)
    IN IF ref = 0 THEN Raise(c)
       ELSE Return([c EXCEPT !.item_lookup = DictDel(@, c.heap[ref].id),
                             !.items = RemoveFirst(@, c.heap, ref)],
                   ref, NoDelta)

_process_input_audio_transcription_completed(c, event) ==
    LET ref == get_item(c, event.item_id)
        ci == event.content_index + 1
        formatted_transcript == IF event.transcript # <<>> THEN event.transcript ELSE <<32>>
    IN IF ref = 0
       THEN Return([c EXCEPT !.queued_transcript_items =
                                 With(@, event.item_id, [transcript |-> formatted_transcript])],
                   0, NoDelta)
       ELSE IF ~c.heap[ref].has_content \/ ci > Len(c.heap[ref].content)
       THEN Raise(c)                       \* KeyError "content" or IndexError at line 326
       ELSE Return([c EXCEPT !.heap[ref].content[ci].has_transcript = TRUE,
                             !.heap[ref].content[ci].transcript = event.transcript,
                             !.heap[ref].formatted.transcript = formatted_transcript],
                   ref, [key |-> "transcript", value |-> event.transcript])

_process_speech_started(c, event) ==
    Return([c EXCEPT !.queued_speech_items =
                         With(@, event.item_id,
                              [audio_start_ms |-> event.audio_start_ms,
                               has_audio_end_ms |-> FALSE, audio_end_ms |-> 0,
                               has_audio |-> FALSE, audio |-> <<>>])],
           0, NoDelta)

_process_speech_stopped(c, event, audio_buffer) ==
    LET id == event.item_id
        speech == c.queued_speech_items[id]
        start_index == (speech.audio_start_ms * default_frequency) \div 1000
        end_index == (event.audio_end_ms * default_frequency) \div 1000
    IN IF id \notin DOMAIN c.queued_speech_items
       THEN Raise(c)                       \* KeyError at line 339
       ELSE IF audio_buffer # <<>>
       THEN Return([c EXCEPT !.queued_speech_items[id].has_audio_end_ms = TRUE,
                             !.queued_speech_items[id].audio_end_ms = event.audio_end_ms,
                             !.queued_speech_items[id].has_audio = TRUE,
                             !.queued_speech_items[id].audio =
                                 Slice(audio_buffer, start_index, end_index)],
                   0, NoDelta)
       ELSE Return([c EXCEPT !.queued_speech_items[id].has_audio_end_ms = TRUE,
                             !.queued_speech_items[id].audio_end_ms = event.audio_end_ms],
                   0, NoDelta)

_process_response_created(c, event) ==
    LET ref == Alloc(c.heap)
    IN IF ~DictHas(c.response_lookup, event.response_id)
       THEN Return([c EXCEPT !.response_lookup = DictSet(@, event.response_id, ref),
                             !.responses = Append(@, ref),
                             !.heap = With(@, ref, [id |-> event.response_id, output |-> <<>>])],
                   0, NoDelta)
       ELSE Return(c, 0, NoDelta)

_process_output_item_added(c, event) ==
    LET ref == DictGet(c.response_lookup, event.response_id)
    IN IF ref = 0 THEN Raise(c)
       ELSE Return([c EXCEPT !.heap[ref].output = Append(@, event.item_id)], 0, NoDelta)

_process_output_item_done(c, event) ==
    LET ref == get_item(c, event.item_id)
    IN IF ref = 0 THEN Raise(c)
       ELSE Return([c EXCEPT !.heap[ref].status = event.status], ref, NoDelta)

_process_content_part_added(c, event) ==
    LET ref == get_item(c, event.item_id)
    IN IF ref = 0 \/ ~c.heap[ref].has_content THEN Raise(c)
       ELSE Return([c EXCEPT !.heap[ref].content = Append(@, event.part)], ref, NoDelta)

\* a transcript delta that lands in formatted.text
_process_audio_transcript_delta_into_text(c, event) ==
    LET ref == get_item(c, event.item_id)
        ci == event.content_index + 1
    IN IF ref = 0 THEN Raise(c)
       ELSE IF \/ ~c.heap[ref].has_content
               \/ ci > Len(c.heap[ref].content)
               \/ ~c.heap[ref].content[ci].has_transcript
       THEN Raise(c)
       ELSE Return([c EXCEPT !.heap[ref].content[ci].transcript = @ \o event.delta,
                             !.heap[ref].formatted.text = @ \o event.delta],
                   ref, [key |-> "transcript", value |-> event.delta])

_process_audio_transcript_delta(c, event) ==
    LET ref == get_item(c, event.item_id)
        ci == event.content_index + 1
    IN IF ref = 0 THEN Raise(c)
       ELSE IF \/ ~c.heap[ref].has_content
               \/ ci > Len(c.heap[ref].content)
               \/ ~c.heap[ref].content[ci].has_transcript
       THEN Raise(c)                       \* KeyError or IndexError at line 393
       ELSE Return([c EXCEPT !.heap[ref].content[ci].transcript = @ \o event.delta,
                             !.heap[ref].formatted.transcript = @ \o event.delta],
                   ref, [key |-> "transcript", value |-> event.delta])

\* a variant that treats an unknown item as the text delta does
_process_audio_delta_strict(c, event) ==
    LET ref == get_item(c, event.item_id)
        append_values == base64_to_array_buffer(event.delta)
    IN IF ref = 0 THEN Raise(c)
       ELSE IF c.heap[ref].formatted.audio.kind # "list"
       THEN Raise(c)
       ELSE Return([c EXCEPT !.heap[ref].formatted.audio.data = Append(@, append_values)],
                   ref, [key |-> "audio", value |-> append_values])

_process_audio_delta(c, event) ==
    LET ref == get_item(c, event.item_id)
        append_values == base64_to_array_buffer(event.delta)
    IN IF ref = 0 THEN Return(c, 0, NoDelta)
       ELSE IF c.heap[ref].formatted.audio.kind # "list"
       THEN Raise(c)                       \* TypeError: bytearray += list, line 407
       ELSE Return([c EXCEPT !.heap[ref].formatted.audio.data = Append(@, append_values)],
                   ref, [key |-> "audio", value |-> append_values])

_process_text_delta(c, event) ==
    LET ref == get_item(c, event.item_id)
        ci == event.content_index + 1
    IN IF ref = 0 THEN Raise(c)
       ELSE IF \/ ~c.heap[ref].has_content
               \/ ci > Len(c.heap[ref].content)
               \/ ~c.heap[ref].content[ci].has_text
       THEN Raise(c)                       \* KeyError or IndexError at line 417
       ELSE Return([c EXCEPT !.heap[ref].content[ci].text = @ \o event.delta,
                             !.heap[ref].formatted.text = @ \o event.delta],
                   ref, [key |-> "text", value |-> event.delta])

_process_function_call_arguments_delta(c, event) ==
    LET ref == get_item(c, event.item_id)
    IN IF ref = 0 THEN Raise(c)
       ELSE IF c.heap[ref].type # "function_call"
       THEN Raise(c)                       \* KeyError "arguments" at line 429
       ELSE Return([c EXCEPT !.heap[ref].arguments = @ \o event.delta,
                             !.heap[ref].formatted.tool.arguments = @ \o event.delta],
                   ref, [key |-> "arguments", value |-> event.delta])

\* the processors by event type; a type outside the table has none
EventProcessors ==
    {"conversation.item.created", "conversation.item.truncated",
     "conversation.item.deleted",
     "conversation.item.input_audio_transcription.completed",
     "input_audio_buffer.speech_started", "input_audio_buffer.speech_stopped",
     "response.created", "response.output_item.added", "response.output_item.done",
     "response.content_part.added", "response.audio_transcript.delta",
     "response.audio.delta", "response.text.delta",
     "response.function_call_arguments.delta"}

\* the objects the store's tables refer to
Live(c) ==
    DictValues(c.item_lookup) \cup {c.items[i] : i \in 1..Len(c.items)}
    \cup DictValues(c.response_lookup) \cup {c.responses[i] : i \in 1..Len(c.responses)}

\* the heap holds the objects of the store's tables and the object a call
\* returned last; any other object is garbage
Collect(c, keep) ==
    [c EXCEPT !.heap = [x \in (DOMAIN c.heap) \cap (Live(c) \cup keep) |-> c.heap[x]]]

\* the call event_processor(self, event, *args): the processor of
\* speech_stopped takes one extra argument, the captured buffer, and every
\* other processor none
dispatch(c, event, args) ==
    LET t == event.type
    IN IF t \notin EventProcessors THEN Raise(c)
       ELSE IF Len(args) # (IF t = "input_audio_buffer.speech_stopped" THEN 1 ELSE 0)
            THEN Raise(c)                  \* TypeError: the lambda's arity
       ELSE IF t = "conversation.item.created" THEN _process_item_created(c, event)
       ELSE IF t = "conversation.item.truncated" THEN _process_item_truncated(c, event)
       ELSE IF t = "conversation.item.deleted" THEN _process_item_deleted(c, event)
       ELSE IF t = "conversation.item.input_audio_transcription.completed"
            THEN _process_input_audio_transcription_completed(c, event)
       ELSE IF t = "input_audio_buffer.speech_started" THEN _process_speech_started(c, event)
       ELSE IF t = "input_audio_buffer.speech_stopped"
            THEN _process_speech_stopped(c, event, args[1])
       ELSE IF t = "response.created" THEN _process_response_created(c, event)
       ELSE IF t = "response.output_item.added" THEN _process_output_item_added(c, event)
       ELSE IF t = "response.output_item.done" THEN _process_output_item_done(c, event)
       ELSE IF t = "response.content_part.added" THEN _process_content_part_added(c, event)
       ELSE IF t = "response.audio_transcript.delta"
            THEN _process_audio_transcript_delta(c, event)
       ELSE IF t = "response.audio.delta" THEN _process_audio_delta(c, event)
       ELSE IF t = "response.text.delta" THEN _process_text_delta(c, event)
       ELSE _process_function_call_arguments_delta(c, event)

\* the pair r without the objects that neither the store nor the pair
\* refers to any more
collected(r) == [r EXCEPT !.c = Collect(r.c, {r.item})]

process_event(c, event, args) == collected(dispatch(Collect(c, {}), event, args))

---------------------------------------------------------------------------
(* The store driven directly: any sequence of process_event calls.  Each   *)
(* run draws its events from one universe, a small set of events about one *)
(* part of the store.                                                      *)

ItemIds == 1..MaxItems

\* base64 of the one-byte chunk <<7>> ("Bw==") and of <<8, 9>> ("CAk=")
B64OneByte == <<66, 119, 61, 61>>

B64TwoBytes == <<67, 65, 107, 61>>

\* a captured input buffer of four bytes
CapturedBuffer == <<11, 12, 13, 14>>

\* creations, duplicates, deletions and failing calls over several ids
OrderUniverse ==
    {EvItemCreated(MessageItem(i, "assistant", <<>>)) : i \in ItemIds}
    \cup {EvItemDeleted(i) : i \in ItemIds}
    \cup {EvOutputItemDone(i, "completed") : i \in ItemIds}
    \cup {EvTextDelta(i, 0, <<97>>) : i \in ItemIds}
    \cup {EvSpeechStarted(1, 0), EvOther("session.updated")}

\* audio of one assistant item: chunks, transcript, truncation
AudioUniverse ==
    {EvItemCreated(MessageItem(1, "assistant", <<AudioPart("audio")>>)),
     EvAudioDelta(1, 0, B64OneByte), EvAudioDelta(1, 0, B64TwoBytes),
     EvAudioDelta(2, 0, B64OneByte),
     EvAudioTranscriptDelta(1, 0, <<116>>),
     EvItemDeleted(1)}
    \cup {EvItemTruncated(1, ms) : ms \in 0..MaxChunks}

\* speech and transcription events that may precede the item they name
SpeechUniverse ==
    {EvItemCreated(MessageItem(1, "user", <<AudioPart("input_audio")>>)),
     EvSpeechStarted(1, 1),
     EvSpeechStopped(1, 2, <<>>), EvSpeechStopped(1, 2, CapturedBuffer),
     EvTranscriptionCompleted(1, 0, <<>>), EvTranscriptionCompleted(1, 0, <<116>>),
     EvItemTruncated(1, 1),
     EvItemDeleted(1)}

\* text of one assistant item: two text parts and deltas for either
TextUniverse ==
    {EvItemCreated(MessageItem(1, "assistant", <<>>)),
     EvItemCreated(MessageItem(2, "user", <<TextPart("input_text", <<104>>)>>)),
     EvContentPartAdded(1, TextPart("text", <<>>)),
     EvContentPartAdded(3, TextPart("text", <<>>)),
     EvTextDelta(1, 0, <<97>>), EvTextDelta(1, 1, <<98>>),
     EvTextDelta(2, 0, <<105>>)}

\* the local input buffer create_response() hands to queue_input_audio
StashedBuffer == <<21, 22>>

\* items of every variant created while input audio may be queued
InputUniverse ==
    {EvItemCreated(MessageItem(1, "user", <<AudioPart("input_audio")>>)),
     EvItemCreated(MessageItem(2, "assistant", <<>>)),
     EvItemCreated(MessageItem(2, "system", <<>>)),
     EvItemCreated(FunctionCallItem(3, "g", "c")),
     EvItemCreated(FunctionCallOutputItem(3, "c", <<111>>)),
     EvSpeechStarted(1, 0),
     EvTranscriptionCompleted(1, 0, <<116>>),
     EvItemDeleted(1),
     EvOther("response.done")}

\* a response whose output names an item that is deleted, beside entries
\* of the queued tables
ResponseUniverse ==
    {EvItemCreated(MessageItem(1, "assistant", <<>>)),
     EvItemDeleted(1), EvItemDeleted(2),
     EvResponseCreated(1),
     EvOutputItemAdded(1, 1), EvOutputItemAdded(2, 1),
     EvSpeechStarted(2, 0),
     EvTranscriptionCompleted(2, 0, <<116>>)}

Universes ==
    {OrderUniverse, AudioUniverse, SpeechUniverse, TextUniverse, InputUniverse,
     ResponseUniverse}

\* the session configuration a new or reset client starts from; of its
\* entries the model keeps the turn detection type
_reset_config == [turn_detection |-> "server_vad"]

\* seq is the arrival number of the frame the call was made for (0: none)
NoCall ==
    [event |-> EvOther("None"), raised |-> FALSE, item |-> 0, delta |-> NoDelta, seq |-> 0]

\* a Python value handed to send as data: its type, its length or its
\* number, and whether json.dumps accepts what it holds
Value(type, value) == [type |-> type, value |-> value, json |-> TRUE]

None == Value("NoneType", 0)

\* a call of the application: the method and the arguments in use
Op(name) ==
    [name |-> name, turn_detection |-> "", array_buffer |-> <<>>, id |-> 0,
     sample_count |-> 0, tool |-> "", event_name |-> "", data |-> None]

\* the last call of the application, whether it raised, and the effects of
\* the transport's send when the call was that send
Called(op, raised) == [op |-> op, raised |-> raised, effects |-> <<>>]

Outcome(e, r, n) ==
    [event |-> e, raised |-> r.raised, item |-> r.item, delta |-> r.delta, seq |-> n]

\* the growth of every stored sequence is capped
Bounded(c) ==
    \A ref \in DOMAIN c.heap :
        IF ref \in DictValues(c.response_lookup)
        THEN Len(c.heap[ref].output) <= MaxOutput
        ELSE /\ AudioLen(c.heap[ref].formatted.audio) <= MaxChunks
             /\ Len(c.heap[ref].formatted.text) <= MaxText
             /\ Len(c.heap[ref].formatted.transcript) <= MaxText
             /\ Len(c.heap[ref].content) <= MaxParts
             /\ \A i \in 1..Len(c.heap[ref].content) :
                   /\ Len(c.heap[ref].content[i].text) <= MaxText
                   /\ Len(c.heap[ref].content[i].transcript) <= MaxText
             /\ Len(c.heap[ref].arguments) <= MaxText

Args(e) == IF e.type = "input_audio_buffer.speech_stopped" THEN <<e.input_audio_buffer>> ELSE <<>>

\* a dispatch on the client's own event bus: its name and, for the
\* conversation events, the item object handed out and that object's id
Dispatch(name, item, id) ==
    [name |-> name, source |-> "", type |-> "", item |-> item, id |-> id]

\* what _process_event does with the pair r that process_event returned
conversation_updated(r) ==
    [c |-> r.c, item |-> r.item, delta |-> r.delta, raised |-> r.raised,
     dispatched |-> IF ~r.raised /\ r.item # 0
                    THEN <<Dispatch("conversation.updated", r.item, r.c.heap[r.item].id)>>
                    ELSE <<>>]

\* RealtimeClient._process_event: the store's process_event, then
\* conversation.updated when an item came back
_process_event(c, event, args) == conversation_updated(process_event(c, event, args))

\* one call _process_event(e, *args) of the client
Call(e) ==
    \E r \in {_process_event(conversation, e, Args(e))} :
       /\ Bounded(r.c)
       /\ conversation' = r.c
       /\ last' = Outcome(e, r, 0)
       /\ dispatched' = r.dispatched
       /\ UNCHANGED <<universe, application, called, pending, order_kept, transport_vars, loop_vars, client_vars>>

ItemCreated ==
    \E e \in universe : e.type = "conversation.item.created" /\ Call(e)

ItemTruncated ==
    \E e \in universe : e.type = "conversation.item.truncated" /\ Call(e)

ItemDeleted ==
    \E e \in universe : e.type = "conversation.item.deleted" /\ Call(e)

TranscriptionCompleted ==
    \E e \in universe : e.type = "conversation.item.input_audio_transcription.completed" /\ Call(e)

SpeechStarted ==
    \E e \in universe : e.type = "input_audio_buffer.speech_started" /\ Call(e)

SpeechStopped ==
    \E e \in universe : e.type = "input_audio_buffer.speech_stopped" /\ Call(e)

OutputItemDone ==
    \E e \in universe : e.type = "response.output_item.done" /\ Call(e)

ContentPartAdded ==
    \E e \in universe : e.type = "response.content_part.added" /\ Call(e)

AudioTranscriptDelta ==
    \E e \in universe : e.type = "response.audio_transcript.delta" /\ Call(e)

AudioDelta ==
    \E e \in universe : e.type = "response.audio.delta" /\ Call(e)

TextDelta ==
    \E e \in universe : e.type = "response.text.delta" /\ Call(e)

ResponseCreated ==
    \E e \in universe : e.type = "response.created" /\ Call(e)

OutputItemAdded ==
    \E e \in universe : e.type = "response.output_item.added" /\ Call(e)

UnknownEvent == \E e \in universe : e.type \notin EventProcessors /\ Call(e)

\* the queue_input_audio(self.input_audio_buffer) of create_response(), which
\* hands over a buffer that is not empty
QueueInputAudio ==
    \E op \in application :
        /\ op.name = "queue_input_audio"
        /\ conversation' = queue_input_audio(conversation, op.array_buffer)
        /\ last' = NoCall
        /\ dispatched' = <<>>
        /\ UNCHANGED <<universe, application, called, pending, order_kept, transport_vars,
                       loop_vars, client_vars>>

\* RealtimeClient.__init__ and RealtimeAPI.__init__: nothing connected,
\* nothing running, the default session
Constructed ==
    /\ conversation = clear
    /\ last = NoCall
    /\ ws = 0
    /\ streams = <<>>
    /\ wire = <<>>
    /\ received = 0
    /\ pumps = <<>>
    /\ tasks = <<>>
    /\ connecting = 0
    /\ calls = 0
    /\ tools = <<>>
    /\ session_config = _reset_config
    /\ input_audio_buffer = <<>>
    /\ session_created = FALSE
    /\ event_handlers = 1
    /\ dispatched = <<>>
    /\ called = Called(Op("__init__"), FALSE)

Init ==
    /\ Constructed
    /\ universe \in Universes
    /\ application = IF universe \in {InputUniverse, ResponseUniverse}
                     THEN {[Op("queue_input_audio") EXCEPT !.array_buffer = StashedBuffer]}
                     ELSE {}
    /\ pending = {}
    /\ order_kept = TRUE

Next ==
    \/ QueueInputAudio
    \/ ItemCreated
    \/ ItemTruncated
    \/ ItemDeleted
    \/ TranscriptionCompleted
    \/ SpeechStarted
    \/ SpeechStopped
    \/ ResponseCreated
    \/ OutputItemAdded
    \/ OutputItemDone
    \/ ContentPartAdded
    \/ AudioTranscriptDelta
    \/ AudioDelta
    \/ TextDelta
    \/ UnknownEvent

Spec == Init /\ [][Next]_vars

---------------------------------------------------------------------------
(* Views of the store used by the properties. *)

Items == conversation.items

Lookup == conversation.item_lookup

Heap == conversation.heap

StoredIn(c, id) == DictHas(c.item_lookup, id)

ItemIn(c, id) == c.heap[DictGet(c.item_lookup, id)]

Stored(id) == StoredIn(conversation, id)

ItemOf(id) == ItemIn(conversation, id)

---------------------------------------------------------------------------
(* C1: in every reachable state the id index and the ordered item list     *)
(* hold exactly the same items: the k-th key of item_lookup (a dict keeps  *)
(* the order of first insertion of its surviving keys) is the id of the    *)
(* k-th element of items, which is the very object stored under that id,   *)
(* and no id or object occurs twice.                                       *)
C1_IndexMatchesList ==
    /\ Len(Items) = Len(Lookup)
    /\ \A k \in 1..Len(Items) :
          /\ Items[k] = Lookup[k].v
          /\ Items[k] \in DOMAIN Heap
          /\ Heap[Items[k]].id = Lookup[k].k
    /\ \A j, k \in 1..Len(Items) :
          j # k => Items[j] # Items[k] /\ Lookup[j].k # Lookup[k].k

\* a duplicate created (its returned copy is not the stored object) after a
\* deletion and a re-creation have left the surviving ids out of numeric order
C1_DuplicateAfterDelete ==
    /\ last.event.type = "conversation.item.created"
    /\ ~last.raised
    /\ last.item \notin {Items[k] : k \in 1..Len(Items)}
    /\ Len(Items) = 2
    /\ Lookup[1].k > Lookup[2].k
    /\ \E k \in 1..2 : Items[k] >= 3

---------------------------------------------------------------------------
(* The events of a single response, fed to process_event in any order.     *)

\* the order in which the server emits them
CanonicalOrder ==
    <<EvItemCreated(MessageItem(1, "assistant", <<>>)),
      EvResponseCreated(1),
      EvOutputItemAdded(1, 1),
      EvContentPartAdded(1, TextPart("text", <<>>)),
      EvContentPartAdded(1, AudioPart("audio")),
      EvTextDelta(1, 0, <<104>>),
      EvTextDelta(1, 0, <<105>>),
      EvAudioTranscriptDelta(1, 1, <<116>>),
      EvAudioDelta(1, 1, B64OneByte),
      EvOutputItemDone(1, "completed")>>

Positions == 1..Len(CanonicalOrder)

Deltas ==
    {"response.text.delta", "response.audio_transcript.delta", "response.audio.delta"}

\* the content index a content_part.added at position j gives its part
PartIndex(j) ==
    Cardinality({q \in 1..(j - 1) : CanonicalOrder[q].type = "response.content_part.added"})

\* the event at position i rests on the event at position j: j creates the
\* item i names, j adds the content part i writes into or an earlier part
\* than i adds, or both are deltas of one kind
RestsOn(i, j) ==
    LET a == CanonicalOrder[j]
        b == CanonicalOrder[i]
    IN \/ /\ a.type = "conversation.item.created"
          /\ "item_id" \in DOMAIN b
          /\ b.type # "response.output_item.added"
       \/ /\ a.type = "response.content_part.added"
          /\ \/ b.type = "response.content_part.added"
             \/ /\ b.type \in {"response.text.delta", "response.audio_transcript.delta"}
                /\ b.content_index = PartIndex(j)
       \/ a.type = b.type /\ b.type \in Deltas

Before(i) == {j \in 1..(i - 1) : RestsOn(i, j)}

InitPerm ==
    /\ Constructed
    /\ universe = {CanonicalOrder[i] : i \in Positions}
    /\ application = {}
    /\ pending = Positions
    /\ order_kept = TRUE

\* the next event of the permutation is fed
Feed ==
    \E i \in pending :
        \E r \in {process_event(conversation, CanonicalOrder[i], <<>>)} :
           /\ conversation' = r.c
           /\ last' = Outcome(CanonicalOrder[i], r, 0)
           /\ pending' = pending \ {i}
           /\ order_kept' = (order_kept /\ Before(i) \cap pending = {})
           /\ dispatched' = <<>>
           /\ UNCHANGED <<universe, application, called, transport_vars, loop_vars, client_vars>>

SpecPerm == InitPerm /\ [][Feed]_vars

\* the store after the first n events of the canonical order
RECURSIVE Fed(_)
Fed(n) == IF n = 0 THEN clear ELSE process_event(Fed(n - 1), CanonicalOrder[n], <<>>).c

\* items and item_lookup with every ref replaced by the object it names
ItemsView(c) ==
    [list |-> [k \in 1..Len(c.items) |-> c.heap[c.items[k]]],
     lookup |-> [k \in 1..Len(c.item_lookup) |->
                    [k |-> c.item_lookup[k].k, v |-> c.heap[c.item_lookup[k].v]]]]

---------------------------------------------------------------------------
(* C3: after a conversation.item.truncated for a known item, the item's    *)
(* formatted.transcript is empty and its formatted.audio, as one           *)
(* concatenated byte stream, is the prefix of the stream it held before,   *)
(* cut at index floor(audio_end_ms * sample_rate / 1000).                  *)
C3_TruncateCutsTheStream ==
    [][(/\ last'.event.type = "conversation.item.truncated"
        /\ Stored(last'.event.item_id))
       => LET id == last'.event.item_id
              end_index == (last'.event.audio_end_ms * default_frequency) \div 1000
          IN /\ ~last'.raised
             /\ ItemIn(conversation', id).formatted.transcript = <<>>
             /\ Concat(ItemIn(conversation', id).formatted.audio.data)
                  = Take(Concat(ItemOf(id).formatted.audio.data), end_index)]_vars

---------------------------------------------------------------------------
(* C5: whenever conversation.item.created{id} is processed while           *)
(* queued_speech_items holds an entry for id, the call succeeds and        *)
(* afterwards queued_speech_items has no entry for id, whatever the        *)
(* history of the entry.                                                   *)
C5_CreatedDrainsQueuedSpeech ==
    [][(/\ last'.event.type = "conversation.item.created"
        /\ last'.event.item.id \in DOMAIN conversation.queued_speech_items)
       => /\ ~last'.raised
          /\ last'.event.item.id \notin DOMAIN conversation'.queued_speech_items]_vars

---------------------------------------------------------------------------
(* C6: a transcription.completed for an id not yet stored returns          *)
(* (None, None) and stashes the transcript, an empty one as a single       *)
(* space; when the item is then created, its formatted.transcript is the   *)
(* stashed transcript right after that call and queued_transcript_items    *)
(* has no entry for the id any more.                                       *)
C6_EarlyTranscriptReachesItem ==
    [][/\ (/\ last'.event.type = "conversation.item.input_audio_transcription.completed"
            /\ ~Stored(last'.event.item_id))
           => LET id == last'.event.item_id
                  t == last'.event.transcript
              IN /\ ~last'.raised
                 /\ last'.item = 0
                 /\ last'.delta = NoDelta
                 /\ id \in DOMAIN conversation'.queued_transcript_items
                 /\ conversation'.queued_transcript_items[id].transcript
                      = (IF t = <<>> THEN <<32>> ELSE t)
       /\ (/\ last'.event.type = "conversation.item.created"
            /\ ~Stored(last'.event.item.id)
            /\ last'.event.item.id \in DOMAIN conversation.queued_transcript_items)
           => LET id == last'.event.item.id
              IN /\ StoredIn(conversation', id)
                 /\ ItemIn(conversation', id).formatted.transcript
                      = conversation.queued_transcript_items[id].transcript
                 /\ id \notin DOMAIN conversation'.queued_transcript_items]_vars


---------------------------------------------------------------------------
(* RealtimeAPI, RealtimeClient and the event loop.  A step of the model is *)
(* one task of the loop running from one suspension point to the next:     *)
(* a call of the application, the inbound pump taking one frame, or an     *)
(* output_item.done task resuming.  A task that dispatch created runs      *)
(* when the loop picks it, which may be after the pump has taken further   *)
(* frames that were already buffered.                                      *)

MaxFrames == 3
MaxCalls == 3

\* the names the application registers tools under
ToolNames == {"g"}

\* str(name)
NameCodes(name) == IF name = "g" THEN <<103>> ELSE <<>>

\* a frame that json.loads rejects
NotJson == [not_json |-> TRUE]

\* json.loads of the arguments string, over the characters "{" and "}":
\* only "{}" is a JSON document
json_loads(text) == [ok |-> text = <<123, 125>>]

\* json.dumps of a str without quotes or escapes in it
json_dumps(text) == <<34>> \o text \o <<34>>

\* json.dumps({"error": message})
json_dumps_error(message) ==
    <<123, 34, 101, 114, 114, 111, 114, 34, 58, 32>> \o json_dumps(message) \o <<125>>

\* what a registered handler returns ("ok"), and the texts of the three
\* exceptions _call_tool catches, abbreviated: json.loads ("E"), the
\* missing tool ("T" and its name), the handler's own ("H")
HandlerResult == <<111, 107>>

ExpectingValue == <<69>>

NotAdded(name) == <<84>> \o NameCodes(name)

HandlerError == <<72>>

\* RealtimeAPI.send failing: "RealtimeAPI is not connected" ("N")
NotConnected == <<78>>

\* an event on the wire: its type, the stream it went out on, the task that
\* sent it (0: a call of the application) and the payload fields in use
Entry(type, by) ==
    [type |-> type, by |-> by, stream |-> 0, call_id |-> "", output |-> <<>>,
     tools |-> <<>>, item_id |-> 0, content_index |-> 0, audio_end_ms |-> 0]

FunctionCallOutput(by, call_id, output) ==
    [Entry("conversation.item.create", by) EXCEPT !.call_id = call_id, !.output = output]

\* RealtimeAPI.send on the transport holding stream conn
send(conn, w, entry) ==
    IF conn = 0 THEN [raised |-> TRUE, wire |-> w]
    ELSE [raised |-> FALSE, wire |-> Append(w, [entry EXCEPT !.stream = conn])]

\* bool(data)
bool(data) == data.type # "NoneType" /\ data.value # 0

\* data or {}
or_dict(data) == IF bool(data) THEN data ELSE Value("dict", 0)

\* one effect of a send: a dispatch on the transport's bus or the frame
\* handed to the stream
Effect(do, name) == [do |-> do, name |-> name]

\* RealtimeAPI.send(event_name, data) on the transport holding stream conn:
\* whether it raised, the wire after it and its effects in order.
\* json.dumps runs after the two dispatches
api_send(conn, w, event_name, data) ==
    LET dispatches == <<Effect("dispatch", "client." \o event_name),
                        Effect("dispatch", "client.*")>>
    IN IF conn = 0 THEN [raised |-> TRUE, wire |-> w, effects |-> <<>>]
       ELSE IF or_dict(data).type # "dict"
       THEN [raised |-> TRUE, wire |-> w, effects |-> <<>>]
       ELSE IF ~or_dict(data).json
       THEN [raised |-> TRUE, wire |-> w, effects |-> dispatches]
       ELSE [raised |-> FALSE, wire |-> send(conn, w, Entry(event_name, 0)).wire,
             effects |-> Append(dispatches, Effect("transmit", event_name))]

\* the event names of the protocol, for the test of a name's prefix
EventNames ==
    EventProcessors \cup
    {"session.update", "session.created", "session.updated", "rate_limits.updated",
     "conversation.item.create", "conversation.item.truncate", "conversation.item.delete",
     "input_audio_buffer.append", "input_audio_buffer.commit",
     "response.create", "response.cancel", "error", "*"}

\* text.startswith(prefix), for a text that is an event name or a prefixed one
startswith(text, prefix) == \E name \in EventNames : text = prefix \o name

\* RealtimeClient._log_event: the realtime.event the client dispatches for
\* an event of the wire
_log_event(event) ==
    [name |-> "realtime.event",
     source |-> IF startswith(event.type, "client.") THEN "client" ELSE "server",
     type |-> event.type, item |-> 0, id |-> 0]

\* the realtime.event dispatches of the sends that took the wire from w to w2
Sent(w, w2) == [i \in 1..(Len(w2) - Len(w)) |-> _log_event(w2[Len(w) + i])]

\* what the synchronous subscriber of a frame's type dispatches, given the
\* outcome r of its _process_event call
subscriber(f, r) ==
    r.dispatched \o
    (IF f.type = "input_audio_buffer.speech_started"
     THEN <<Dispatch("conversation.interrupted", 0, 0)>>
     ELSE IF f.type = "conversation.item.created"
     THEN <<Dispatch("conversation.item.appended", r.item, r.c.heap[r.item].id)>>
          \o (IF r.c.heap[r.item].status = "completed"
              THEN <<Dispatch("conversation.item.completed", r.item, r.c.heap[r.item].id)>>
              ELSE <<>>)
     ELSE <<>>)

\* Python floats are IEEE 754 doubles: a sign-less value here is zero or
\* 2^exp times a mantissa of 53 bits, first bit 1, written most
\* significant bit first.  Division and multiplication round the exact
\* result to the nearest such value, ties to the even mantissa.  The
\* operands of the model are ints below 2^14, so that every intermediate
\* value stays below 2^31.
MantissaBits == 53

LimbBits == 16

RECURSIVE Pow2(_)
Pow2(k) == IF k = 0 THEN 1 ELSE 2 * Pow2(k - 1)

RECURSIVE Pow2Mod(_, _)
\* 2^k modulo m, by squaring
Pow2Mod(k, m) ==
    IF k = 0 THEN 1 % m
    ELSE LET h == Pow2Mod(k \div 2, m)
         IN (h * h * (IF k % 2 = 1 THEN 2 ELSE 1)) % m

RECURSIVE float_exponent(_, _)
\* e with 2^e <= n / d < 2^(e + 1), for n, d > 0
float_exponent(n, d) ==
    IF n >= 2 * d THEN float_exponent(n, 2 * d) + 1
    ELSE IF n < d THEN float_exponent(2 * n, d) - 1
    ELSE 0

\* the k-th bit after the point of r / d, for 0 <= r < d
quotient_bit(r, d, k) == (((Pow2Mod(k, 2 * d) * r) % (2 * d)) \div d)

\* whether r / d has a 1 bit beyond the k-th
quotient_rest(r, d, k) == (Pow2Mod(k, d) * r) % d # 0

RECURSIVE bits_of(_)
\* a natural number in binary, without leading zeros
bits_of(n) == IF n = 0 THEN <<>> ELSE Append(bits_of(n \div 2), n % 2)

RECURSIVE int_of(_, _, _)
\* the natural number that bits[lo..hi] spell
int_of(bits, lo, hi) == IF hi < lo THEN 0 ELSE 2 * int_of(bits, lo, hi - 1) + bits[hi]

\* the natural number v < 2^LimbBits in binary, with leading zeros
limb_bits(v) == [i \in 1..LimbBits |-> (v \div Pow2(LimbBits - i)) % 2]

\* a mantissa times the natural number k < 2^15, in binary: the product is
\* taken limb by limb from the low end, each limb handing its carry on
bits_times(mant, k) ==
    LET t0 == int_of(mant, MantissaBits - LimbBits + 1, MantissaBits) * k
        t1 == int_of(mant, MantissaBits - 2 * LimbBits + 1, MantissaBits - LimbBits) * k
                  + t0 \div Pow2(LimbBits)
        t2 == int_of(mant, MantissaBits - 3 * LimbBits + 1, MantissaBits - 2 * LimbBits) * k
                  + t1 \div Pow2(LimbBits)
        t3 == int_of(mant, 1, MantissaBits - 3 * LimbBits) * k + t2 \div Pow2(LimbBits)
    IN bits_of(t3) \o limb_bits(t2 % Pow2(LimbBits)) \o limb_bits(t1 % Pow2(LimbBits))
           \o limb_bits(t0 % Pow2(LimbBits))

\* the exact value 2^exp * 1.bits rounded to a double: bits is the exact
\* result from its first 1 bit on, sticky tells of 1 bits beyond it
float_round(exp, bits, sticky) ==
    LET kept == [i \in 1..MantissaBits |-> IF i <= Len(bits) THEN bits[i] ELSE 0]
        guard == IF Len(bits) > MantissaBits THEN bits[MantissaBits + 1] ELSE 0
        rest == sticky \/ \E i \in (MantissaBits + 2)..Len(bits) : bits[i] = 1
        up == guard = 1 /\ (rest \/ kept[MantissaBits] = 1)
        low == {i \in 1..MantissaBits : kept[i] = 0}
        top == IF low = {} THEN 0 ELSE CHOOSE i \in low : \A j \in low : j <= i
    IN IF ~up THEN [zero |-> FALSE, exp |-> exp, mant |-> kept]
       ELSE IF low = {}
       THEN [zero |-> FALSE, exp |-> exp + 1,
             mant |-> [i \in 1..MantissaBits |-> IF i = 1 THEN 1 ELSE 0]]
       ELSE [zero |-> FALSE, exp |-> exp,
             mant |-> [i \in 1..MantissaBits |->
                          IF i < top THEN kept[i] ELSE IF i = top THEN 1 ELSE 0]]

\* n / d of two ints, n >= 0 and d > 0: a float
float_truediv(n, d) ==
    IF n = 0 THEN [zero |-> TRUE, exp |-> 0, mant |-> <<>>]
    ELSE LET e == float_exponent(n, d)
             num == IF e < 0 THEN n * Pow2(0 - e) ELSE n
             den == IF e > 0 THEN d * Pow2(e) ELSE d
         IN float_round(e,
                        [i \in 1..(MantissaBits + 1) |->
                            IF i = 1 THEN 1 ELSE quotient_bit(num - den, den, i - 1)],
                        quotient_rest(num - den, den, MantissaBits))

\* x * k of a float and a positive int k < 2^15
float_mul(x, k) ==
    IF x.zero THEN x
    ELSE LET product == bits_times(x.mant, k)
         IN float_round(x.exp + Len(product) - MantissaBits, product, FALSE)

\* int(x) of a float 0 <= x < 2^31: the digits before the point
float_int(x) ==
    IF x.zero \/ x.exp < 0 THEN 0
    ELSE int_of(x.mant, 1, x.exp + 1)

\* the tools of a session.update: session_config["tools"] is empty, so the
\* definitions of the registry in its order, each stamped type function
use_tools(registry) ==
    [i \in 1..Len(registry) |-> [name |-> registry[i].v.name, type |-> "function"]]

\* RealtimeClient.update_session(): session.update with the registered
\* tools, sent only when connected
update_session(conn, w, registry) ==
    IF conn # 0
    THEN send(conn, w, [Entry("session.update", 0) EXCEPT !.tools = use_tools(registry)]).wire
    ELSE w

\* session_config["turn_detection"] is the default dict ("server_vad"),
\* None ("None") or a dict without a type ("{}").
\* session_config.get("turn_detection", {}).get("type"): the key is always
\* there, so None is what the first get returns for None, and None has no
\* get (AttributeError)
get_turn_detection_type(config) ==
    IF config.turn_detection = "None" THEN [raised |-> TRUE, type |-> "None"]
    ELSE [raised |-> FALSE,
          type |-> IF config.turn_detection = "{}" THEN "None" ELSE config.turn_detection]

\* RealtimeClient.create_response() by task by
create_response(conn, w, by, c, buffer, config) ==
    LET t == get_turn_detection_type(config)
        commit == ~t.raised /\ t.type = "None" /\ Len(buffer) > 0
        s1 == IF t.raised THEN [raised |-> TRUE, wire |-> w]
              ELSE IF commit THEN send(conn, w, Entry("input_audio_buffer.commit", by))
              ELSE [raised |-> FALSE, wire |-> w]
        s2 == IF s1.raised THEN s1 ELSE send(conn, s1.wire, Entry("response.create", by))
    IN [raised |-> s2.raised, wire |-> s2.wire,
        c |-> IF commit /\ ~s1.raised THEN queue_input_audio(c, buffer) ELSE c,
        buffer |-> IF commit /\ ~s1.raised THEN <<>> ELSE buffer]

\* a task of _on_output_item_done: the frame and its arrival number, where
\* the coroutine stands, and the locals of _call_tool
Task(event, n) ==
    [event |-> event, seq |-> n, pc |-> "scheduled", tool |-> NoTool,
     found |-> FALSE, result |-> "none"]

\* a variant of the except block that only logs the error
call_tool_except_silent(t, k, message) ==
    /\ UNCHANGED wire
    /\ tasks' = [tasks EXCEPT ![t] = [k EXCEPT !.pc = "create_response"]]

\* the except block of _call_tool in task t, whose locals are k: one
\* function_call_output carrying the error; a send that raises here
\* leaves the coroutine
call_tool_except(t, k, message) ==
    LET s == send(ws, wire, FunctionCallOutput(t, k.tool.call_id, json_dumps_error(message)))
    IN /\ wire' = s.wire
       /\ tasks' = [tasks EXCEPT ![t] = [k EXCEPT !.pc = IF s.raised THEN "failed_tool"
                                                         ELSE "create_response"]]

\* client.connect() and realtime.connect() up to the await of
\* websockets.connect: both refuse when the transport holds a stream
connect ==
    /\ calls < MaxCalls
    /\ calls' = calls + 1
    /\ connecting' = IF ws # 0 THEN connecting ELSE connecting + 1
    /\ called' = Called(Op("connect"), ws # 0)
    /\ dispatched' = <<>>
    /\ UNCHANGED <<conversation, universe, application, last, pending, order_kept,
                   transport_vars, pumps, tasks, client_vars>>

\* websockets.connect returns: the stream is stored, the pump is created,
\* and client.connect() goes on to update_session()
connect_opened ==
    /\ connecting > 0
    /\ connecting' = connecting - 1
    /\ LET conn == Len(streams) + 1
       IN /\ streams' = Append(streams, "open")
          /\ ws' = conn
          /\ wire' = update_session(conn, wire, tools)
    /\ pumps' = Append(pumps, [stream |-> 0, state |-> "scheduled"])
    /\ dispatched' = Sent(wire, wire')
    /\ UNCHANGED <<conversation, universe, application, called, last, pending, order_kept,
                   received, event_handlers, tasks, calls, client_vars>>

\* _receive_messages starts: async for over whatever self.ws is by now
pump_start ==
    \E p \in DOMAIN pumps :
        /\ pumps[p].state = "scheduled"
        /\ pumps' = [pumps EXCEPT ![p] = IF ws = 0
                                         THEN [stream |-> 0, state |-> "failed_start"]
                                         ELSE [stream |-> ws, state |-> "running"]]
        /\ dispatched' = <<>>
        /\ UNCHANGED <<conversation, universe, application, called, last, pending, order_kept,
                       transport_vars, tasks, connecting, calls, client_vars>>

\* the async for ends when the stream is closed
pump_finish ==
    \E p \in DOMAIN pumps :
        /\ pumps[p].state = "running"
        /\ streams[pumps[p].stream] = "closed"
        /\ pumps' = [pumps EXCEPT ![p].state = "finished"]
        /\ dispatched' = <<>>
        /\ UNCHANGED <<conversation, universe, application, called, last, pending, order_kept,
                       transport_vars, tasks, connecting, calls, client_vars>>

\* the event types whose subscriber calls process_event inline
Inline == EventProcessors \ {"response.output_item.done"}

\* one turn of the loop of _receive_messages: json.loads, then the
\* subscriber of the frame's type.  An exception of json.loads or of an
\* inline subscriber leaves the coroutine; output_item.done only creates
\* its task
_receive_messages ==
    \E p \in DOMAIN pumps : \E f \in universe :
        /\ pumps[p].state = "running"
        /\ streams[pumps[p].stream] = "open"
        /\ received < MaxFrames
        /\ received' = received + 1
        /\ IF "not_json" \in DOMAIN f
           THEN /\ pumps' = [pumps EXCEPT ![p].state = "failed_frame"]
                /\ dispatched' = <<>>
                /\ UNCHANGED <<conversation, last, tasks, session_created>>
           ELSE IF f.type = "response.output_item.done"
           THEN /\ tasks' = Append(tasks, Task(f, received + 1))
                /\ dispatched' = <<_log_event(f)>>
                /\ UNCHANGED <<conversation, last, pumps, session_created>>
           ELSE IF f.type = "session.created"
           THEN /\ session_created' = TRUE
                /\ dispatched' = <<_log_event(f)>>
                /\ UNCHANGED <<conversation, last, pumps, tasks>>
           ELSE IF f.type \in Inline
           THEN \E r \in {_process_event(conversation, f,
                                 IF f.type = "input_audio_buffer.speech_stopped"
                                 THEN <<input_audio_buffer>> ELSE <<>>)} :
                   /\ Bounded(r.c)
                   /\ conversation' = r.c
                   /\ last' = Outcome(f, r, received + 1)
                   /\ pumps' = IF r.raised THEN [pumps EXCEPT ![p].state = "failed_frame"]
                               ELSE pumps
                   /\ dispatched' = IF r.raised THEN <<>>
                                     ELSE subscriber(f, r) \o <<_log_event(f)>>
                   /\ UNCHANGED <<tasks, session_created>>
           ELSE /\ dispatched' = <<_log_event(f)>>
                /\ UNCHANGED <<conversation, last, pumps, tasks, session_created>>
        /\ UNCHANGED <<universe, application, called, pending, order_kept, ws, streams, wire, event_handlers,
                       connecting, calls, tools, session_config, input_audio_buffer>>

\* _on_output_item_done runs: process_event, then for a function call
\* _call_tool up to the await of the handler
_on_output_item_done ==
    \E t \in DOMAIN tasks :
        /\ tasks[t].pc = "scheduled"
        /\ \E r \in {_process_event(conversation, tasks[t].event, <<>>)} :
           \E tool \in {IF r.item = 0 THEN NoTool ELSE r.c.heap[r.item].formatted.tool} :
              /\ conversation' = r.c
              /\ last' = Outcome(tasks[t].event, r, tasks[t].seq)
              /\ IF r.raised
                 THEN /\ tasks' = [tasks EXCEPT ![t].pc = "failed_event"]
                      /\ UNCHANGED wire
                 ELSE IF tool.type # "function"
                 THEN /\ tasks' = [tasks EXCEPT ![t].pc = "done"]
                      /\ UNCHANGED wire
                 ELSE IF ~json_loads(tool.arguments).ok
                 THEN call_tool_except(t, [tasks[t] EXCEPT !.tool = tool], ExpectingValue)
                 ELSE IF ~DictHas(tools, tool.name)
                 THEN call_tool_except(t, [tasks[t] EXCEPT !.tool = tool],
                                       NotAdded(tool.name))
                 ELSE /\ tasks' = [tasks EXCEPT ![t].tool = tool, ![t].found = TRUE,
                                                ![t].pc = "handler"]
                      /\ UNCHANGED wire
              /\ dispatched' =
                    IF r.raised THEN <<>>
                    ELSE r.dispatched
                         \o (IF r.c.heap[r.item].status = "completed"
                             THEN <<Dispatch("conversation.item.completed", r.item,
                                             r.c.heap[r.item].id)>>
                             ELSE <<>>)
                         \o Sent(wire, wire')
        /\ UNCHANGED <<universe, application, called, pending, order_kept, ws, streams, received,
                       event_handlers, pumps, connecting, calls, client_vars>>

\* the handler's await ends: it returned and the output is sent, or it
\* raised and the except block runs.  A send of the output that raises is
\* caught by the same except block
_call_tool ==
    \E t \in DOMAIN tasks : \E result \in {"returned", "raised"} :
        /\ tasks[t].pc = "handler"
        /\ LET k == [tasks[t] EXCEPT !.result = result]
               s == send(ws, wire,
                         FunctionCallOutput(t, k.tool.call_id, json_dumps(HandlerResult)))
           IN IF result = "raised"
              THEN call_tool_except(t, k, HandlerError)
              ELSE IF s.raised
              THEN call_tool_except(t, k, NotConnected)
              ELSE /\ wire' = s.wire
                   /\ tasks' = [tasks EXCEPT ![t] = [k EXCEPT !.pc = "create_response"]]
        /\ dispatched' = Sent(wire, wire')
        /\ UNCHANGED <<conversation, universe, application, called, last, pending, order_kept, ws, streams,
                       received, event_handlers, pumps, connecting, calls, client_vars>>

\* the last line of _call_tool: create_response(), outside the try
call_tool_create_response ==
    \E t \in DOMAIN tasks :
        /\ tasks[t].pc = "create_response"
        /\ \E r \in {create_response(ws, wire, t, conversation, input_audio_buffer,
                                       session_config)} :
              /\ wire' = r.wire
              /\ conversation' = r.c
              /\ input_audio_buffer' = r.buffer
              /\ tasks' = [tasks EXCEPT ![t].pc = IF r.raised THEN "failed_tool" ELSE "done"]
        /\ dispatched' = Sent(wire, wire')
        /\ UNCHANGED <<universe, application, called, last, pending, order_kept, ws, streams, received,
                       event_handlers,
                       pumps, connecting, calls, tools, session_config, session_created>>

\* client.disconnect(): the store is cleared and the stream, if any, is
\* closed and dropped
disconnect ==
    /\ calls < MaxCalls
    /\ calls' = calls + 1
    /\ session_created' = FALSE
    /\ conversation' = clear
    /\ IF ws # 0
       THEN streams' = [streams EXCEPT ![ws] = "closed"] /\ ws' = 0
       ELSE UNCHANGED <<streams, ws>>
    /\ called' = Called(Op("disconnect"), FALSE)
    /\ dispatched' = <<>>
    /\ UNCHANGED <<universe, application, last, pending, order_kept, wire, received,
                   event_handlers,
                   pumps, tasks, connecting, tools, session_config, input_audio_buffer>>

\* client.add_tool(definition, handler): a name already registered raises
add_tool ==
    \E name \in ToolNames :
        /\ calls < MaxCalls
        /\ calls' = calls + 1
        /\ IF DictHas(tools, name)
           THEN UNCHANGED <<tools, wire>>
           ELSE /\ tools' = DictSet(tools, name, [name |-> name])
                /\ wire' = update_session(ws, wire, tools')
        /\ called' = Called([Op("add_tool") EXCEPT !.tool = name], DictHas(tools, name))
        /\ dispatched' = Sent(wire, wire')
        /\ UNCHANGED <<conversation, universe, application, last, pending, order_kept,
                       ws, streams, received, event_handlers, pumps, tasks, connecting,
                       session_config, input_audio_buffer, session_created>>

\* frames that end the pump, frames that do not, and a frame whose
\* subscriber runs as a task
PumpUniverse ==
    {EvItemCreated(MessageItem(1, "assistant", <<>>)),
     EvTextDelta(1, 0, <<97>>), EvTextDelta(2, 0, <<97>>),
     EvItemDeleted(1),
     EvSpeechStopped(1, 2, <<>>), EvOutputItemAdded(1, 1),
     EvOutputItemDone(1, "completed"),
     EvOther("session.created"), EvOther("rate_limits.updated"),
     NotJson}

\* one function call: its item, its arguments in one piece or cut short,
\* and its completion
ToolUniverse ==
    {EvItemCreated(FunctionCallItem(1, "g", "c")),
     EvFunctionCallArgumentsDelta(1, <<123, 125>>),
     EvFunctionCallArgumentsDelta(1, <<123>>),
     EvOutputItemDone(1, "completed")}

ClientUniverses == {PumpUniverse, ToolUniverse}

InitClient ==
    /\ Constructed
    /\ universe \in ClientUniverses
    /\ application = {}
    /\ pending = {}
    /\ order_kept = TRUE

NextClient ==
    \/ connect
    \/ connect_opened
    \/ pump_start
    \/ pump_finish
    \/ _receive_messages
    \/ _on_output_item_done
    \/ _call_tool
    \/ call_tool_create_response
    \/ disconnect
    \/ add_tool

SpecClient == InitClient /\ [][NextClient]_vars


---------------------------------------------------------------------------
(* The calls of the application.  Each run draws its calls from one        *)
(* scenario: the frames the server sends and the calls with their          *)
(* arguments.  A call runs to its return in one step: its sends do not     *)
(* wait for anything in the model.                                         *)

MaxSession == 5

\* the position, from 0, of the first part of content with the type, or -1
audio_index(content, type) ==
    LET found == {i \in 1..Len(content) : content[i].type = type}
    IN IF found = {} THEN -1
       ELSE (CHOOSE i \in found : \A j \in found : i <= j) - 1

\* int((sample_count / default_frequency) * 1000)
audio_end_ms(sample_count) ==
    float_int(float_mul(float_truediv(sample_count, default_frequency), 1000))

\* the sends of RealtimeClient.cancel_response(id, sample_count) and
\* whether it raised; id 0 stands for no id
cancel_response_sends(conn, w, c, id, sample_count) ==
    LET ref == get_item(c, id)
        cancel == send(conn, w, Entry("response.cancel", 0))
        index == audio_index(c.heap[ref].content, "audio")
    IN IF id = 0 THEN cancel
       ELSE IF ref = 0 THEN [raised |-> TRUE, wire |-> w]
       ELSE IF c.heap[ref].type # "message" \/ c.heap[ref].role # "assistant"
       THEN [raised |-> TRUE, wire |-> w]
       ELSE IF cancel.raised THEN cancel
       ELSE IF index = -1 THEN [raised |-> TRUE, wire |-> cancel.wire]
       ELSE send(conn, cancel.wire,
                 [Entry("conversation.item.truncate", 0) EXCEPT
                     !.item_id = id, !.content_index = index,
                     !.audio_end_ms = audio_end_ms(sample_count)])

\* the application makes the call op
Makes(op, name) ==
    /\ op \in application
    /\ op.name = name
    /\ calls < MaxSession
    /\ calls' = calls + 1

\* client.update_session(turn_detection=...)
UpdateSession ==
    \E op \in application :
        /\ Makes(op, "update_session")
        /\ session_config' = [session_config EXCEPT !.turn_detection = op.turn_detection]
        /\ wire' = update_session(ws, wire, tools)
        /\ called' = Called(op, FALSE)
        /\ dispatched' = Sent(wire, wire')
        /\ UNCHANGED <<conversation, universe, application, last, pending, order_kept,
                       ws, streams, received, event_handlers, pumps, tasks, connecting,
                       tools, input_audio_buffer, session_created>>

\* client.append_input_audio(array_buffer): an empty chunk sends nothing
append_input_audio ==
    \E op \in application :
        /\ Makes(op, "append_input_audio")
        /\ LET s == IF Len(op.array_buffer) > 0
                    THEN send(ws, wire, Entry("input_audio_buffer.append", 0))
                    ELSE [raised |-> FALSE, wire |-> wire]
           IN /\ wire' = s.wire
              /\ input_audio_buffer' = IF s.raised THEN input_audio_buffer
                                       ELSE input_audio_buffer \o op.array_buffer
              /\ called' = Called(op, s.raised)
        /\ dispatched' = Sent(wire, wire')
        /\ UNCHANGED <<conversation, universe, application, last, pending, order_kept,
                       ws, streams, received, event_handlers, pumps, tasks, connecting,
                       tools, session_config, session_created>>

\* client.create_response() called by the application
CreateResponse ==
    \E op \in application :
        /\ Makes(op, "create_response")
        /\ \E r \in {create_response(ws, wire, 0, conversation, input_audio_buffer,
                                       session_config)} :
              /\ wire' = r.wire
              /\ conversation' = r.c
              /\ input_audio_buffer' = r.buffer
              /\ called' = Called(op, r.raised)
        /\ dispatched' = Sent(wire, wire')
        /\ UNCHANGED <<universe, application, last, pending, order_kept, ws, streams,
                       received, event_handlers, pumps, tasks, connecting, tools,
                       session_config, session_created>>

\* client.cancel_response(id, sample_count)
cancel_response ==
    \E op \in application :
        /\ Makes(op, "cancel_response")
        /\ \E s \in {cancel_response_sends(ws, wire, conversation, op.id,
                                            op.sample_count)} :
              /\ wire' = s.wire
              /\ called' = Called(op, s.raised)
        /\ dispatched' = Sent(wire, wire')
        /\ UNCHANGED <<conversation, universe, application, last, pending, order_kept,
                       ws, streams, received, event_handlers, pumps, tasks, connecting,
                       client_vars>>

\* client.reset(): self.disconnect() is called without await, which only
\* makes a coroutine object, so nothing of disconnect() runs; then the
\* transport's subscriptions are cleared, the configuration is reset and one
\* set of subscriptions is installed
reset ==
    \E op \in application :
        /\ Makes(op, "reset")
        /\ event_handlers' = 0 + 1
        /\ session_created' = FALSE
        /\ tools' = <<>>
        /\ session_config' = _reset_config
        /\ input_audio_buffer' = <<>>
        /\ called' = Called(op, FALSE)
        /\ dispatched' = <<>>
        /\ UNCHANGED <<conversation, universe, application, last, pending, order_kept,
                       ws, streams, wire, received, pumps, tasks, connecting>>

\* client.remove_tool(name): a name that is not registered raises; nothing
\* is sent
remove_tool ==
    \E op \in application :
        /\ Makes(op, "remove_tool")
        /\ tools' = DictDel(tools, op.tool)
        /\ called' = Called(op, ~DictHas(tools, op.tool))
        /\ dispatched' = <<>>
        /\ UNCHANGED <<conversation, universe, application, last, pending, order_kept,
                       transport_vars, pumps, tasks, connecting,
                       session_config, input_audio_buffer, session_created>>

\* client.realtime.send(event_name, data) called by the application; the
\* client's subscriber of client.* mirrors each dispatched event
Send ==
    \E op \in application :
        /\ Makes(op, "send")
        /\ \E s \in {api_send(ws, wire, op.event_name, op.data)} :
              /\ wire' = s.wire
              /\ called' = [Called(op, s.raised) EXCEPT !.effects = s.effects]
              /\ dispatched' = IF s.effects = <<>> THEN <<>>
                               ELSE <<_log_event([type |-> op.event_name])>>
        /\ UNCHANGED <<conversation, universe, application, last, pending, order_kept,
                       ws, streams, received, event_handlers, pumps, tasks, connecting,
                       client_vars>>

\* two chunks of captured audio
ChunkA == <<1>>

ChunkB == <<2, 3>>

\* sample counts: one second of audio, and a count whose quotient by the
\* rate is not a double
SampleCounts == {default_frequency, 2 * default_frequency + 3}

\* the input buffer with turn detection on, off and never having been on
AudioScenario ==
    [frames |-> {EvOther("session.created")},
     calls |-> {[Op("update_session") EXCEPT !.turn_detection = td] : td \in {"None", "{}"}}
               \cup {[Op("append_input_audio") EXCEPT !.array_buffer = a] :
                        a \in {<<>>, ChunkA, ChunkB}}
               \cup {Op("create_response")}]

\* an interruption of the assistant's audio
CancelScenario ==
    [frames |-> {EvItemCreated(MessageItem(1, "assistant",
                                   <<TextPart("text", <<>>), AudioPart("audio")>>)),
                 EvItemCreated(MessageItem(2, "user", <<AudioPart("input_audio")>>))},
     calls |-> {[Op("cancel_response") EXCEPT !.id = 1, !.sample_count = n] :
                   n \in SampleCounts}
               \cup {Op("cancel_response"),
                     [Op("cancel_response") EXCEPT !.id = 2, !.sample_count = default_frequency]}]

\* a session that is reset and whose tools come and go
ResetScenario ==
    [frames |-> {EvItemCreated(MessageItem(1, "assistant", <<>>)),
                 EvOther("session.created")},
     calls |-> {Op("reset"), [Op("update_session") EXCEPT !.turn_detection = "None"],
                \* item 1 is an assistant message without an audio part
                [Op("cancel_response") EXCEPT !.id = 1, !.sample_count = default_frequency]}
               \cup {[Op("remove_tool") EXCEPT !.tool = name] : name \in ToolNames}]

\* the values send is given as data: none, key-value objects (empty, with
\* content, with content json.dumps rejects), and lists, strings and numbers
\* that are empty or zero and that are not
Payloads ==
    {None, Value("dict", 0), Value("dict", 1), [Value("dict", 1) EXCEPT !.json = FALSE],
     Value("list", 0), Value("list", 1), Value("str", 0), Value("str", 1),
     Value("int", 0), Value("int", 1)}

\* the transport's send used directly
SendScenario ==
    [frames |-> {EvOther("session.created")},
     calls |-> {[Op("send") EXCEPT !.event_name = "response.create", !.data = d] :
                   d \in Payloads}]

Scenarios == {AudioScenario, CancelScenario, ResetScenario, SendScenario}

InitCalls ==
    /\ Constructed
    /\ \E scenario \in Scenarios :
          /\ universe = scenario.frames
          /\ application = scenario.calls
    /\ pending = {}
    /\ order_kept = TRUE

NextCalls ==
    \/ connect
    \/ connect_opened
    \/ pump_start
    \/ pump_finish
    \/ _receive_messages
    \/ disconnect
    \/ add_tool
    \/ remove_tool
    \/ UpdateSession
    \/ append_input_audio
    \/ CreateResponse
    \/ cancel_response
    \/ reset
    \/ Send

SpecCalls == InitCalls /\ [][NextCalls]_vars


---------------------------------------------------------------------------
(* Claims about the pump, the tool call and the connection. *)

\* C4: no server frame ends the inbound pump: whatever a frame holds and
\* whatever its subscriber does, the pump goes on to the next frame
C4_NoFrameEndsThePump ==
    \A p \in DOMAIN pumps : pumps[p].state # "failed_frame"

\* the conversation.item.create and response.create events task t sent, in
\* wire order, without the stream they went out on
ToolEvents(t) ==
    LET sent == SelectSeq(wire, LAMBDA e : e.by = t /\ e.type \in
                                  {"conversation.item.create", "response.create"})
    IN [i \in 1..Len(sent) |-> [sent[i] EXCEPT !.stream = 0]]

\* the output the four outcomes call for, from the arguments string, the
\* registry lookup and the handler's outcome
Expected(k) ==
    IF ~json_loads(k.tool.arguments).ok THEN json_dumps_error(ExpectingValue)
    ELSE IF ~k.found THEN json_dumps_error(NotAdded(k.tool.name))
    ELSE IF k.result = "raised" THEN json_dumps_error(HandlerError)
    ELSE json_dumps(HandlerResult)

Answer(t) ==
    <<FunctionCallOutput(t, tasks[t].tool.call_id, Expected(tasks[t])),
      Entry("response.create", t)>>

C8_ToolCallNeverRaises ==
    \A t \in DOMAIN tasks : tasks[t].pc # "failed_tool"

\* C9: process_event is called in the order the frames were received
C9_ProcessedInArrivalOrder ==
    [][last'.seq >= last.seq]_vars

\* C10: at no time are two streams open or two inbound pumps running
C10_OneStreamOnePump ==
    /\ Cardinality({c \in DOMAIN streams : streams[c] = "open"}) <= 1
    /\ Cardinality({p \in DOMAIN pumps : pumps[p].state = "running"
                                         /\ streams[pumps[p].stream] = "open"}) <= 1


---------------------------------------------------------------------------
(* Claims about the client's own event bus. *)

\* the dispatches of the last step under one name
Named(d, name) == SelectSeq(d, LAMBDA x : x.name = name)

\* C15: every event the client sends is mirrored in the same step as a
\* realtime.event of source client, and every frame the pump takes as one
\* of source server
C15_MirroredWithItsSource ==
    [][/\ \A i \in (Len(wire) + 1)..Len(wire') :
             \E k \in DOMAIN dispatched' :
                 /\ dispatched'[k].name = "realtime.event"
                 /\ dispatched'[k].type = wire'[i].type
                 /\ dispatched'[k].source = "client"
       /\ received' # received
          => \E k \in DOMAIN dispatched' :
                 /\ dispatched'[k].name = "realtime.event"
                 /\ dispatched'[k].source = "server"]_vars

\* C16: conversation.item.completed is dispatched for an item only in a
\* step before which the stored item was not yet completed
C16_CompletedOnTransitionOnly ==
    [][\A k \in DOMAIN dispatched' :
          dispatched'[k].name = "conversation.item.completed"
          => ~(/\ StoredIn(conversation, dispatched'[k].id)
               /\ ItemIn(conversation, dispatched'[k].id).status = "completed")]_vars

\* C17: conversation.item.appended is dispatched only for an id that was
\* not stored before the step, and carries the object then stored under it
C17_AppendedOnFirstCreationOnly ==
    [][\A k \in DOMAIN dispatched' :
          dispatched'[k].name = "conversation.item.appended"
          => /\ ~StoredIn(conversation, dispatched'[k].id)
             /\ get_item(conversation', dispatched'[k].id) = dispatched'[k].item]_vars

\* C19: the formatted text of every stored item is the concatenation, in
\* content order, of the text its text / input_text entries hold
C19_FormattedTextInContentOrder ==
    \A id \in ItemIds :
        Stored(id) /\ ItemOf(id).has_content
        => ItemOf(id).formatted.text = text_content(ItemOf(id).content)

---------------------------------------------------------------------------
(* Claims about the calls of the application. *)

\* the types of the events the last step put on the wire
SentTypes(w, w2) == [i \in 1..(Len(w2) - Len(w)) |-> w2[Len(w) + i].type]

\* the step is the application making a call of that name
Making(name) == calls' = calls + 1 /\ called'.op.name = name

\* C11: after reset() the transport is disconnected, the store is empty,
\* the session configuration is the default one, no tool is registered and
\* the transport carries one set of the client's subscriptions
C11_ResetLeavesAFreshClient ==
    [][Making("reset")
       => /\ ws' = 0
          /\ conversation' = clear
          /\ session_config' = _reset_config
          /\ tools' = <<>>
          /\ event_handlers' = 1]_vars

\* C12: while connected with turn detection off, every append_input_audio
\* of a chunk sends one input_audio_buffer.append and adds the chunk to the
\* local buffer, and a create_response() that finds audio in the buffer
\* sends one commit and then one response.create, empties the buffer and
\* leaves its content as the store's queued_input_audio
C12_AppendsThenOneCommit ==
    [][ws # 0 /\ session_config.turn_detection # "server_vad"
       => /\ Making("append_input_audio") /\ called'.op.array_buffer # <<>>
             => /\ SentTypes(wire, wire') = <<"input_audio_buffer.append">>
                /\ input_audio_buffer' = input_audio_buffer \o called'.op.array_buffer
          /\ Making("create_response") /\ input_audio_buffer # <<>>
             => /\ SentTypes(wire, wire') = <<"input_audio_buffer.commit", "response.create">>
                /\ input_audio_buffer' = <<>>
                /\ conversation'.queued_input_audio
                      = [is_none |-> FALSE, data |-> input_audio_buffer]]_vars

\* C13: a create_response() of a connected client sends a commit exactly
\* when turn detection is off and the local buffer holds audio; otherwise
\* it returns, has sent response.create alone and has left the buffer and
\* queued_input_audio as they were
C13_CommitOnlyWithoutTurnDetection ==
    [][Making("create_response") /\ ws # 0
       => LET types == SentTypes(wire, wire')
              committed == \E i \in DOMAIN types : types[i] = "input_audio_buffer.commit"
          IN IF session_config.turn_detection # "server_vad" /\ input_audio_buffer # <<>>
             THEN committed
             ELSE /\ ~called'.raised
                  /\ types = <<"response.create">>
                  /\ input_audio_buffer' = input_audio_buffer
                  /\ conversation'.queued_input_audio = conversation.queued_input_audio]_vars

\* C14: cancel_response(id, n) of a connected client, for a stored
\* assistant message with an audio part, sends response.cancel and then a
\* truncate of that item at its first audio part, with audio_end_ms the
\* floor of n * 1000 / sample rate
C14_TruncateAtFloorOfMs ==
    [][/\ Making("cancel_response")
       /\ ws # 0
       /\ Stored(called'.op.id)
       /\ ItemOf(called'.op.id).type = "message"
       /\ ItemOf(called'.op.id).role = "assistant"
       /\ \E i \in DOMAIN ItemOf(called'.op.id).content :
             ItemOf(called'.op.id).content[i].type = "audio"
       => LET content == ItemOf(called'.op.id).content
              truncate == wire'[Len(wire')]
          IN /\ SentTypes(wire, wire') = <<"response.cancel", "conversation.item.truncate">>
             /\ truncate.item_id = called'.op.id
             /\ content[truncate.content_index + 1].type = "audio"
             /\ \A j \in 1..truncate.content_index : content[j].type # "audio"
             /\ truncate.audio_end_ms
                   = (called'.op.sample_count * 1000) \div default_frequency]_vars

\* C18: after an add_tool or remove_tool that a connected client accepted,
\* the last session.update on the wire lists the registry as it is now,
\* each definition stamped type function
C18_SessionUpdateListsTheRegistry ==
    [][(Making("add_tool") \/ Making("remove_tool")) /\ ~called'.raised /\ ws # 0
       => LET updates == SelectSeq(wire', LAMBDA e : e.type = "session.update")
          IN /\ updates # <<>>
             /\ updates[Len(updates)].tools
                   = [i \in 1..Len(tools') |-> [name |-> tools'[i].k, type |-> "function"]]]_vars

\* C21: send(type, payload) fails whenever the transport is disconnected
\* or the payload is given and is not a key-value object, an empty list, an
\* empty string and zero included; a failing send dispatches nothing and
\* transmits nothing; a send that succeeds dispatches to client.<type>,
\* then to client.*, then transmits
C21_SendFailsOrDispatchesThenTransmits ==
    [][Making("send")
       => LET op == called'.op
          IN /\ ws = 0 \/ op.data.type \notin {"NoneType", "dict"} => called'.raised
             /\ called'.raised
                => called'.effects = <<>> /\ wire' = wire /\ dispatched' = <<>>
             /\ ~called'.raised
                => /\ called'.effects
                      = <<Effect("dispatch", "client." \o op.event_name),
                          Effect("dispatch", "client.*"),
                          Effect("transmit", op.event_name)>>
                   /\ SentTypes(wire, wire') = <<op.event_name>>]_vars

Beside(c) ==
    [responses |-> [i \in 1..Len(c.responses) |-> c.heap[c.responses[i]]],
     response_lookup |-> [i \in 1..Len(c.response_lookup) |->
                            [k |-> c.response_lookup[i].k,
                             v |-> c.heap[c.response_lookup[i].v]]],
     queued_speech_items |-> c.queued_speech_items,
     queued_transcript_items |-> c.queued_transcript_items,
     queued_input_audio |-> c.queued_input_audio]

\* C23: a conversation.item.deleted for a stored item returns, takes the
\* item out of item_lookup and out of items, keeping the other items in
\* their order, and leaves the responses, their output lists and the
\* queued tables as they were; for an id that is not stored it raises and
\* leaves the whole store as it was
C23_DeleteTouchesOnlyTheItem ==
    [][last'.event.type = "conversation.item.deleted"
       => LET id == last'.event.item_id
              ref == get_item(conversation, id)
          IN IF Stored(id)
             THEN /\ ~last'.raised
                  /\ ~StoredIn(conversation', id)
                  /\ conversation'.item_lookup = DictDel(Lookup, id)
                  /\ conversation'.items = SelectSeq(Items, LAMBDA x : x # ref)
                  /\ \A x \in DictValues(conversation'.item_lookup) :
                         conversation'.heap[x] = Heap[x]
                  /\ Beside(conversation') = Beside(conversation)
             ELSE /\ last'.raised
                  /\ Collect(conversation', {}) = Collect(conversation, {})]_vars

\* an item was deleted that a response's output still names, while the
\* queued tables hold entries
C23_DeletedItemStillInOutput ==
    /\ last.event.type = "conversation.item.deleted"
    /\ ~last.raised
    /\ ~Stored(last.event.item_id)
    /\ \E i \in 1..Len(conversation.responses) :
          \E j \in 1..Len(Heap[conversation.responses[i]].output) :
             Heap[conversation.responses[i]].output[j] = last.event.item_id
    /\ conversation.queued_speech_items # <<>>
    /\ conversation.queued_transcript_items # <<>>
    /\ ~conversation.queued_input_audio.is_none

\* C24: a process_event call that raises leaves the store as it was: the
\* items and their index, the responses and the queued tables
C24_FailureLeavesTheStore ==
    [][last'.event.type # "None" /\ last'.raised
       => Collect(conversation', {}) = Collect(conversation, {})]_vars

\* C25: cancel_response(id, n) with an id whose item is not stored, is not
\* a message, is not the assistant's or has no audio part raises and has
\* sent nothing; no cancel_response with an id sends a response.cancel that
\* is not followed by the conversation.item.truncate
C25_CancelIsAllOrNothing ==
    [][Making("cancel_response") /\ called'.op.id # 0
       => LET id == called'.op.id
              types == SentTypes(wire, wire')
              fit == /\ Stored(id)
                     /\ ItemOf(id).type = "message"
                     /\ ItemOf(id).role = "assistant"
                     /\ audio_index(ItemOf(id).content, "audio") # -1
          IN /\ ~fit => called'.raised /\ types = <<>>
             /\ \A i \in DOMAIN types :
                   types[i] = "response.cancel"
                   => i < Len(types) /\ types[i + 1] = "conversation.item.truncate"]_vars

=============================================================================
